---------------------------- MODULE Spec2Model ----------------------------
(***************************************************************************)
(* A model of osmnx/folium.py: plot_graph_folium, plot_route_folium,       *)
(* _plot_folium and _make_folium_polyline.                                 *)
(*                                                                         *)
(* Python values are tagged records ([t |-> "str", s |-> ...]), a dict is  *)
(* a record (a function from key names), a list is a sequence.  A text is  *)
(* a sequence of characters; the three characters that json escapes are    *)
(* written "DQ" (double quote), "BS" (backslash) and "NL" (newline).       *)
(* A point is <<x, y>> = <<lon, lat>>, a geometry is a sequence of points. *)
(***************************************************************************)
EXTENDS Integers, Sequences, FiniteSets, TLC

VARIABLES
    G,        \* the networkx.MultiDiGraph: its edges in iteration order
    folium,   \* the module global `folium`: FALSE when the import failed (None)
    maps,     \* the map views the caller holds; a view's identity is its index
    last      \* the last call: its arguments, its outcome and its call log

vars == <<G, folium, maps, last>>

(***************************************************************************)
(* Bounds of the model.                                                    *)
(***************************************************************************)
MaxRouteLen == 4
MaxPoints == 2

(***************************************************************************)
(* Python values.                                                          *)
(***************************************************************************)
None == [t |-> "None"]
NaN == [t |-> "nan"]
PyStr(s) == [t |-> "str", s |-> s]
PyInt(n) == [t |-> "int", n |-> n]
PyList(xs) == [t |-> "list", xs |-> xs]

\* None for a parameter that otherwise holds a name (popup_attribute)
NoneStr == "None"

(***************************************************************************)
(* json.dumps, with its defaults (ensure_ascii, separators ", ").          *)
(***************************************************************************)
DigitChars == <<"0", "1", "2", "3", "4", "5", "6", "7", "8", "9">>

RECURSIVE Digits(_)
Digits(n) ==
    IF n < 10 THEN <<DigitChars[n + 1]>>
    ELSE Digits(n \div 10) \o <<DigitChars[(n % 10) + 1]>>

EscapeChar(c) ==
    CASE c = "DQ" -> <<"BS", "DQ">>
      [] c = "BS" -> <<"BS", "BS">>
      [] c = "NL" -> <<"BS", "n">>
      [] OTHER -> <<c>>

RECURSIVE EscapeText(_)
EscapeText(s) ==
    IF s = <<>> THEN <<>> ELSE EscapeChar(Head(s)) \o EscapeText(Tail(s))

DumpsScalar(v) ==
    CASE v.t = "str" -> <<"DQ">> \o EscapeText(v.s) \o <<"DQ">>
      [] v.t = "int" -> IF v.n < 0 THEN <<"-">> \o Digits(-v.n) ELSE Digits(v.n)
      [] v.t = "nan" -> <<"N", "a", "N">>
      [] v.t = "None" -> <<"n", "u", "l", "l">>

RECURSIVE DumpsItems(_)
DumpsItems(xs) ==
    IF xs = <<>> THEN <<>>
    ELSE IF Len(xs) = 1 THEN DumpsScalar(xs[1])
    ELSE DumpsScalar(xs[1]) \o <<",", " ">> \o DumpsItems(Tail(xs))

JsonDumps(v) ==
    IF v.t = "list" THEN <<"[">> \o DumpsItems(v.xs) \o <<"]">>
    ELSE DumpsScalar(v)

(***************************************************************************)
(* json.loads, the decoder of a popup's payload.  A parser returns         *)
(* [ok, v, next]: the value read and the position after it.                *)
(***************************************************************************)
ParseFail == [ok |-> FALSE, v |-> None, next |-> 0]

IsDigit(c) == \E d \in 1..10 : DigitChars[d] = c

DigitValue(c) == (CHOOSE d \in 1..10 : DigitChars[d] = c) - 1

RECURSIVE ScanDigits(_, _, _)
ScanDigits(toks, i, acc) ==
    IF i <= Len(toks) /\ IsDigit(toks[i])
    THEN ScanDigits(toks, i + 1, acc * 10 + DigitValue(toks[i]))
    ELSE [ok |-> TRUE, v |-> acc, next |-> i]

RECURSIVE ScanString(_, _, _)
ScanString(toks, i, acc) ==
    IF i > Len(toks) THEN ParseFail
    ELSE IF toks[i] = "DQ" THEN [ok |-> TRUE, v |-> PyStr(acc), next |-> i + 1]
    ELSE IF toks[i] = "NL" THEN ParseFail
    ELSE IF toks[i] = "BS"
         THEN IF i + 1 > Len(toks) THEN ParseFail
              ELSE IF toks[i + 1] = "DQ" THEN ScanString(toks, i + 2, Append(acc, "DQ"))
              ELSE IF toks[i + 1] = "BS" THEN ScanString(toks, i + 2, Append(acc, "BS"))
              ELSE IF toks[i + 1] = "n" THEN ScanString(toks, i + 2, Append(acc, "NL"))
              ELSE ParseFail
    ELSE ScanString(toks, i + 1, Append(acc, toks[i]))

Literal(toks, i, word) ==
    /\ i + Len(word) - 1 <= Len(toks)
    /\ SubSeq(toks, i, i + Len(word) - 1) = word

ParseScalar(toks, i) ==
    IF i > Len(toks) THEN ParseFail
    ELSE IF toks[i] = "DQ" THEN ScanString(toks, i + 1, <<>>)
    ELSE IF IsDigit(toks[i])
         THEN LET r == ScanDigits(toks, i, 0)
              IN  [ok |-> TRUE, v |-> PyInt(r.v), next |-> r.next]
    ELSE IF toks[i] = "-"
         THEN IF i + 1 <= Len(toks) /\ IsDigit(toks[i + 1])
              THEN LET r == ScanDigits(toks, i + 1, 0)
                   IN  [ok |-> TRUE, v |-> PyInt(-r.v), next |-> r.next]
              ELSE ParseFail
    ELSE IF Literal(toks, i, <<"n", "u", "l", "l">>)
         THEN [ok |-> TRUE, v |-> None, next |-> i + 4]
    ELSE IF Literal(toks, i, <<"N", "a", "N">>)
         THEN [ok |-> TRUE, v |-> NaN, next |-> i + 3]
    ELSE ParseFail

RECURSIVE SkipSpace(_, _)
SkipSpace(toks, i) ==
    IF i <= Len(toks) /\ toks[i] \in {" ", "NL"} THEN SkipSpace(toks, i + 1) ELSE i

RECURSIVE ParseItems(_, _, _)
ParseItems(toks, i, acc) ==
    LET r == ParseScalar(toks, SkipSpace(toks, i))
        j == SkipSpace(toks, r.next)
    IN  IF ~r.ok \/ j > Len(toks) THEN ParseFail
        ELSE IF toks[j] = "]"
             THEN [ok |-> TRUE, v |-> PyList(Append(acc, r.v)), next |-> j + 1]
        ELSE IF toks[j] = "," THEN ParseItems(toks, j + 1, Append(acc, r.v))
        ELSE ParseFail

ParseValue(toks, i) ==
    IF i <= Len(toks) /\ toks[i] = "["
    THEN LET j == SkipSpace(toks, i + 1)
         IN  IF j <= Len(toks) /\ toks[j] = "]"
             THEN [ok |-> TRUE, v |-> PyList(<<>>), next |-> j + 1]
             ELSE ParseItems(toks, i + 1, <<>>)
    ELSE ParseScalar(toks, i)

JSONDecodeError == [t |-> "JSONDecodeError"]

JsonLoads(toks) ==
    LET r == ParseValue(toks, SkipSpace(toks, 1))
    IN  IF r.ok /\ SkipSpace(toks, r.next) = Len(toks) + 1 THEN r.v
        ELSE JSONDecodeError

(***************************************************************************)
(* The graph.  An edge is [u, v, key, data], data the edge's attribute     *)
(* dict.  G is the sequence of its edges in networkx's iteration order     *)
(* (by source node, then target node, then key).                           *)
(***************************************************************************)
Nodes == {1, 2}

EdgePool ==
    << [u |-> 1, v |-> 2, key |-> 0,
        data |-> [length |-> 5,
                  geometry |-> <<<<0, 10>>, <<2, 10>>>>,
                  name |-> PyStr(<<"a", "DQ", "n">>)]],
       [u |-> 1, v |-> 2, key |-> 1,
        data |-> [length |-> 3,
                  geometry |-> <<<<0, 10>>, <<0, 11>>, <<2, 11>>, <<2, 10>>>>,
                  name |-> None]],
       [u |-> 1, v |-> 2, key |-> 2,
        data |-> [geometry |-> <<<<0, 10>>, <<0, 12>>, <<2, 12>>, <<2, 10>>>>,
                  name |-> PyList(<<PyStr(<<"BS", "n", "NL">>), PyInt(-12)>>)]],
       [u |-> 1, v |-> 1, key |-> 0,
        data |-> [length |-> 2,
                  geometry |-> <<<<0, 10>>, <<1, 10>>, <<0, 10>>>>]],
       [u |-> 2, v |-> 1, key |-> 0,
        data |-> [length |-> 4,
                  geometry |-> <<<<2, 10>>, <<2, 12>>>>,
                  name |-> PyInt(40)]] >>

RECURSIVE PickEdges(_, _, _)
PickEdges(pool, S, i) ==
    IF i > Len(pool) THEN <<>>
    ELSE (IF i \in S THEN <<pool[i]>> ELSE <<>>) \o PickEdges(pool, S, i + 1)

\* the graphs of the model: every choice of edges of the pool
Graphs == { PickEdges(EdgePool, S, 1) : S \in SUBSET (1..Len(EdgePool)) }

Indices(seq) == 1..Len(seq)

\* G[u][v]: the keys of the parallel edges u -> v, in insertion order;
\* the empty sequence stands for the KeyError of a missing u or v
KeysOf(Gr, u, v) ==
    LET sel == SelectSeq(Gr, LAMBDA e : e.u = u /\ e.v = v)
    IN  [i \in Indices(sel) |-> sel[i].key]

\* G[u][v][k]: the attribute dict of edge (u, v, k)
EdgeData(Gr, u, v, k) ==
    (CHOOSE e \in {Gr[i] : i \in Indices(Gr)} : e.u = u /\ e.v = v /\ e.key = k).data

\* G.subgraph(nodes): the edges whose two ends are among the nodes
Subgraph(Gr, nodes) ==
    SelectSeq(Gr, LAMBDA e : e.u \in nodes /\ e.v \in nodes)

SeqToSet(seq) == {seq[i] : i \in Indices(seq)}

(***************************************************************************)
(* utils_graph.graph_to_gdfs(G, nodes=False): one row per edge, indexed    *)
(* by (u, v, key), with a geometry column and every edge attribute as a    *)
(* column; an attribute an edge lacks is NaN in its row.                   *)
(***************************************************************************)
graph_to_gdfs(Gr) ==
    LET cols == {"geometry"} \cup UNION {DOMAIN Gr[i].data : i \in Indices(Gr)}
    IN  [columns |-> cols,
         rows |-> [i \in Indices(Gr) |->
                    [u |-> Gr[i].u, v |-> Gr[i].v, key |-> Gr[i].key,
                     vals |-> [c \in cols |->
                                IF c \in DOMAIN Gr[i].data THEN Gr[i].data[c]
                                ELSE NaN]]]]

LocAll(gdf, uvk) == gdf

\* gdf.loc[[(u, v, k), ...]]: the rows of the listed index triples, in the
\* order of the list (a triple listed twice gives its row twice)
Loc(gdf, uvk) ==
    [columns |-> gdf.columns,
     rows |-> [i \in Indices(uvk) |->
                CHOOSE r \in SeqToSet(gdf.rows) :
                    r.u = uvk[i][1] /\ r.v = uvk[i][2] /\ r.key = uvk[i][3]]]

Geoms(gdf) == [i \in Indices(gdf.rows) |-> gdf.rows[i].vals["geometry"]]

(***************************************************************************)
(* Geometry.  The geometries of the model run along the integer grid, so   *)
(* a geometry is a union of unit segments: <<x, y, "h">> is the segment    *)
(* from (x, y) to (x+1, y) and <<x, y, "v">> the one from (x, y) to        *)
(* (x, y+1).  unary_union is the union of these sets (overlapping pieces   *)
(* count once) and the centroid of a union of lines is the mean of its     *)
(* unit segments' midpoints.  A number that need not be an integer is a    *)
(* fraction <<numerator, denominator>> in lowest terms.                    *)
(***************************************************************************)
Min(a, b) == IF a <= b THEN a ELSE b
Max(a, b) == IF a >= b THEN a ELSE b

SetMin(S) == CHOOSE a \in S : \A b \in S : a <= b
SetMax(S) == CHOOSE a \in S : \A b \in S : a >= b

RECURSIVE Gcd(_, _)
Gcd(a, b) == IF b = 0 THEN a ELSE Gcd(b, a % b)

Frac(n, d) == LET g == Gcd(IF n < 0 THEN -n ELSE n, d) IN <<n \div g, d \div g>>

SegmentUnits(p, q) ==
    IF p[2] = q[2]
    THEN {<<x, p[2], "h">> : x \in Min(p[1], q[1])..(Max(p[1], q[1]) - 1)}
    ELSE {<<p[1], y, "v">> : y \in Min(p[2], q[2])..(Max(p[2], q[2]) - 1)}

GeomUnits(geom) ==
    UNION {SegmentUnits(geom[i], geom[i + 1]) : i \in 1..(Len(geom) - 1)}

UnaryUnion(geoms) == UNION {GeomUnits(geoms[i]) : i \in Indices(geoms)}

\* twice the midpoint of a unit segment, as <<2x, 2y>>
TwiceMid(s) == IF s[3] = "h" THEN <<2 * s[1] + 1, 2 * s[2]>> ELSE <<2 * s[1], 2 * s[2] + 1>>

RECURSIVE SumOver(_, _)
SumOver(S, c) ==
    IF S = {} THEN 0
    ELSE LET s == CHOOSE s \in S : TRUE IN TwiceMid(s)[c] + SumOver(S \ {s}, c)

\* gdf.unary_union.centroid.xy as (x, y)
CentroidXY(geoms) ==
    LET U == UnaryUnion(geoms)
        n == Cardinality(U)
    IN  <<Frac(SumOver(U, 1), 2 * n), Frac(SumOver(U, 2), 2 * n)>>

AllPoints(geoms) == UNION {SeqToSet(geoms[i]) : i \in Indices(geoms)}

\* gdf.total_bounds: (minx, miny, maxx, maxy)
TotalBounds(geoms) ==
    LET P == AllPoints(geoms)
    IN  <<SetMin({p[1] : p \in P}), SetMin({p[2] : p \in P}),
          SetMax({p[1] : p \in P}), SetMax({p[2] : p \in P})>>

(***************************************************************************)
(* Keyword arguments (kwargs): a sequence of <<name, value>> pairs.        *)
(***************************************************************************)
KwNames(kw) == {kw[i][1] : i \in Indices(kw)}

KwGet(kw, name) == kw[CHOOSE i \in Indices(kw) : kw[i][1] = name][2]

KwWithout(kw, names) == SelectSeq(kw, LAMBDA p : p[1] \notin names)

(***************************************************************************)
(* folium's objects.  A view is a folium.Map ([cls, location, zoom_start,  *)
(* children]) or a folium.FeatureGroup ([cls, children]).  folium.Map      *)
(* adds its tile layer as first child and Map.fit_bounds adds a FitBounds  *)
(* child; neither touches the location or the zoom.                        *)
(***************************************************************************)
FoliumPopup(html) == [t |-> "Popup", html |-> html]

FoliumPolyLine(locations, popup, color, weight, opacity, kwargs) ==
    [type |-> "PolyLine", locations |-> locations, popup |-> popup,
     color |-> color, weight |-> weight, opacity |-> opacity, kwargs |-> kwargs]

FoliumMap(location, zoom_start, tiles) ==
    [cls |-> "Map", location |-> location, zoom_start |-> zoom_start,
     children |-> <<[type |-> "TileLayer", tiles |-> tiles]>>]

AddTo(child, view) == [view EXCEPT !.children = Append(@, child)]

MapFitBounds(view, bounds) == AddTo([type |-> "FitBounds", bounds |-> bounds], view)

(***************************************************************************)
(* _make_folium_polyline(geom, color, weight, opacity, popup_val=None,     *)
(* kwargs).  The result is [status, pl]; a keyword given twice to          *)
(* folium.PolyLine is Python's TypeError.                                  *)
(***************************************************************************)
PolyLineParams == {"locations", "popup", "color", "weight", "opacity"}

LocationsReversed(geom) ==
    [i \in Indices(geom) |-> <<geom[Len(geom) + 1 - i][2], geom[Len(geom) + 1 - i][1]>>]

Locations(geom) == [i \in Indices(geom) |-> <<geom[i][2], geom[i][1]>>]

MakePopupAlways(popup_val) == FoliumPopup(JsonDumps(popup_val))

MakePopup(popup_val) ==
    IF popup_val = None THEN None ELSE FoliumPopup(JsonDumps(popup_val))

_make_folium_polyline(geom, color, weight, opacity, popup_val, kwargs) ==
    IF KwNames(kwargs) \cap PolyLineParams # {}
    THEN [status |-> "TypeError", pl |-> None]
    ELSE [status |-> "ok",
          pl |-> FoliumPolyLine(Locations(geom), MakePopup(popup_val),
                                color, weight, opacity, kwargs)]

\* the call of _make_folium_polyline with params, color=color, weight=weight,
\* opacity=opacity and the kwargs: a name given twice is a TypeError, and a
\* popup_val among the kwargs binds the parameter popup_val
CallMakeFoliumPolyline(params, color, weight, opacity, kwargs) ==
    IF KwNames(kwargs) \cap (DOMAIN params \cup {"color", "weight", "opacity"}) # {}
    THEN [status |-> "TypeError", pl |-> None]
    ELSE LET popup_val ==
                 IF "popup_val" \in DOMAIN params THEN params.popup_val
                 ELSE IF "popup_val" \in KwNames(kwargs) THEN KwGet(kwargs, "popup_val")
                 ELSE None
         IN  _make_folium_polyline(params.geom, color, weight, opacity, popup_val,
                                KwWithout(kwargs, {"popup_val"}))

(***************************************************************************)
(* _plot_folium.  An outcome is [status, ret, heap, log]: "ok" or the      *)
(* exception raised, the index of the returned view (0: nothing            *)
(* returned), the caller's views after the call, and the steps taken.      *)
(***************************************************************************)
Raise(exc, heap, log) == [status |-> exc, ret |-> 0, heap |-> heap, log |-> log]

\* dict(zip(["geom", "popup_val"], vals)) for one row of gdf[attrs].values
RowParams(row, popup_attribute) ==
    IF popup_attribute = NoneStr
    THEN [geom |-> row.vals["geometry"]]
    ELSE [geom |-> row.vals["geometry"], popup_val |-> row.vals[popup_attribute]]

\* the loop over the rows: [status, view, log]
RECURSIVE AddEdges(_, _, _, _, _, _, _, _)
AddEdges(rows, i, popup_attribute, view, color, weight, opacity, kwargs) ==
    IF i > Len(rows) THEN [status |-> "ok", view |-> view, log |-> <<>>]
    ELSE LET made == CallMakeFoliumPolyline(RowParams(rows[i], popup_attribute),
                                            color, weight, opacity, kwargs)
         IN  IF made.status # "ok"
             THEN [status |-> made.status, view |-> view, log |-> <<>>]
             ELSE LET rest == AddEdges(rows, i + 1, popup_attribute,
                                       AddTo(made.pl, view), color, weight,
                                       opacity, kwargs)
                  IN  [rest EXCEPT !.log = <<"PolyLine", "add_to">> \o @]

CentroidLonLat(geoms) == CentroidXY(geoms)

\* centroid = (y[0], x[0])
CentroidLatLon(geoms) == <<CentroidXY(geoms)[2], CentroidXY(geoms)[1]>>

BoundsLonLat(tb) == << <<tb[1], tb[2]>>, <<tb[3], tb[4]>> >>

\* [(tb[1], tb[0]), (tb[3], tb[2])] with Python's indices from 0
BoundsLatLon(tb) == << <<tb[2], tb[1]>>, <<tb[4], tb[3]>> >>

PopupColumnKnown(gdf, popup_attribute) ==
    popup_attribute = NoneStr \/ popup_attribute \in gdf.columns

Fits(fit_bounds, view) == fit_bounds /\ view.cls = "Map"

ViewToPlotOnFresh(m, heap, centroid, zoom, tiles) == FoliumMap(centroid, zoom, tiles)

ViewToPlotOn(m, heap, centroid, zoom, tiles) ==
    IF m = 0 THEN FoliumMap(centroid, zoom, tiles) ELSE heap[m]

FoliumIsNoneNever == FALSE

\* folium is None
FoliumIsNone == ~folium

_plot_folium(gdf, m, popup_attribute, tiles, zoom, fit_bounds, color, weight, opacity, kwargs, heap) ==
    IF FoliumIsNone THEN Raise("ImportError", heap, <<"folium is None">>)
    ELSE IF gdf.rows = <<>>
    THEN \* the union of no geometry is empty and so is its centroid: y[0]
         Raise("IndexError", heap, <<"centroid">>)
    ELSE
    LET view == ViewToPlotOn(m, heap, CentroidLatLon(Geoms(gdf)), zoom, tiles)
        made == IF m = 0 THEN <<"centroid", "folium.Map">> ELSE <<"centroid">>
        put(v) == IF m = 0 THEN Append(heap, v) ELSE [heap EXCEPT ![m] = v]
    IN  IF ~PopupColumnKnown(gdf, popup_attribute)
        THEN Raise("KeyError", heap, made)
        ELSE
        LET drawn == AddEdges(gdf.rows, 1, popup_attribute, view, color,
                              weight, opacity, kwargs)
        IN  IF drawn.status # "ok"
            THEN Raise(drawn.status, IF m = 0 THEN heap ELSE put(drawn.view),
                       made \o drawn.log)
            ELSE IF Fits(fit_bounds, drawn.view)
            THEN [status |-> "ok",
                  ret |-> IF m = 0 THEN Len(heap) + 1 ELSE m,
                  heap |-> put(MapFitBounds(drawn.view,
                                            BoundsLatLon(TotalBounds(Geoms(gdf))))),
                  log |-> made \o drawn.log \o <<"fit_bounds">>]
            ELSE [status |-> "ok",
                  ret |-> IF m = 0 THEN Len(heap) + 1 ELSE m,
                  heap |-> put(drawn.view),
                  log |-> made \o drawn.log]

\* the call _plot_folium(gdf_edges, graph_map, ..., edge_opacity, kwargs):
\* a keyword that names a parameter already given by position is a TypeError
PlotFoliumParams ==
    {"gdf", "m", "popup_attribute", "tiles", "zoom", "fit_bounds", "color",
     "weight", "opacity"}

CallPlotFolium(gdf, m, popup_attribute, tiles, zoom, fit_bounds, color, weight, opacity, kwargs, heap) ==
    IF KwNames(kwargs) \cap PlotFoliumParams # {}
    THEN Raise("TypeError", heap, <<>>)
    ELSE LET out == _plot_folium(gdf, m, popup_attribute, tiles, zoom, fit_bounds,
                               color, weight, opacity, kwargs, heap)
         IN  [out EXCEPT !.log = <<"_plot_folium">> \o @]

(***************************************************************************)
(* plot_graph_folium                                                       *)
(***************************************************************************)
plot_graph_folium(Gr, graph_map, popup_attribute, tiles, zoom, fit_bounds, edge_color, edge_width, edge_opacity, kwargs, heap) ==
    LET gdf_edges == graph_to_gdfs(Gr)
        out == CallPlotFolium(gdf_edges, graph_map, popup_attribute, tiles, zoom,
                              fit_bounds, edge_color, edge_width, edge_opacity,
                              kwargs, heap)
    IN  [out EXCEPT !.log = <<"graph_to_gdfs">> \o @]

(***************************************************************************)
(* plot_route_folium                                                       *)
(***************************************************************************)
\* zip(route[:-1], route[1:])
node_pairs(route) == [i \in 1..(Len(route) - 1) |-> <<route[i], route[i + 1]>>]

Lengths(Gr, u, v) ==
    LET keys == KeysOf(Gr, u, v)
    IN  [i \in Indices(keys) |-> EdgeData(Gr, u, v, keys[i])["length"]]

FirstKey(Gr, u, v) == KeysOf(Gr, u, v)[1]

\* min(G[u][v], key=lambda k: G[u][v][k]["length"]): the first key, in
\* iteration order, of minimal length
MinLengthKey(Gr, u, v) ==
    LET keys == KeysOf(Gr, u, v)
        len == Lengths(Gr, u, v)
    IN  keys[CHOOSE i \in Indices(keys) :
                /\ \A j \in Indices(keys) : len[i] <= len[j]
                /\ \A j \in 1..(i - 1) : len[j] > len[i]]

\* whether the generator's step for the pair (u, v) raises KeyError: u or v
\* is missing from G[u], or some parallel edge has no "length"
PairLookupFails(Gr, u, v) ==
    LET keys == KeysOf(Gr, u, v)
    IN  \/ keys = <<>>
        \/ \E i \in Indices(keys) : "length" \notin DOMAIN EdgeData(Gr, u, v, keys[i])

RECURSIVE SelectEdgesSkipping(_, _, _)
SelectEdgesSkipping(Gr, pairs, i) ==
    IF i > Len(pairs) THEN [status |-> "ok", uvk |-> <<>>]
    ELSE LET u == pairs[i][1]
             v == pairs[i][2]
             rest == SelectEdgesSkipping(Gr, pairs, i + 1)
         IN  IF PairLookupFails(Gr, u, v) THEN rest
             ELSE [rest EXCEPT !.uvk = << <<u, v, MinLengthKey(Gr, u, v)>> >> \o @]

\* the generator uvk, consumed by .loc: [status, uvk]
RECURSIVE SelectEdges(_, _, _)
SelectEdges(Gr, pairs, i) ==
    IF i > Len(pairs) THEN [status |-> "ok", uvk |-> <<>>]
    ELSE LET u == pairs[i][1]
             v == pairs[i][2]
         IN  IF PairLookupFails(Gr, u, v) THEN [status |-> "KeyError", uvk |-> <<>>]
             ELSE LET rest == SelectEdges(Gr, pairs, i + 1)
                  IN  [rest EXCEPT !.uvk = << <<u, v, MinLengthKey(Gr, u, v)>> >> \o @]

plot_route_folium(Gr, route, route_map, popup_attribute, tiles, zoom, fit_bounds, route_color, route_width, route_opacity, kwargs, heap) ==
    LET table == graph_to_gdfs(Subgraph(Gr, SeqToSet(route)))
        sel == SelectEdges(Gr, node_pairs(route), 1)
    IN  IF sel.status # "ok"
        THEN Raise(sel.status, heap, <<"graph_to_gdfs", "uvk">>)
        ELSE LET out == CallPlotFolium(Loc(table, sel.uvk), route_map,
                                       popup_attribute, tiles, zoom, fit_bounds,
                                       route_color, route_width, route_opacity,
                                       kwargs, heap)
             IN  [out EXCEPT !.log = <<"graph_to_gdfs", "uvk", "loc">> \o @]

(***************************************************************************)
(* The calls.  The module keeps no state of its own between calls: a       *)
(* behaviour is one call of a public function on a graph, with the views   *)
(* the caller made before.                                                 *)
(***************************************************************************)
RECURSIVE SeqsUpTo(_, _)
SeqsUpTo(S, n) ==
    IF n = 0 THEN {<<>>}
    ELSE LET shorter == SeqsUpTo(S, n - 1)
         IN  shorter \cup {Append(q, x) : q \in shorter, x \in S}

Routes == SeqsUpTo(Nodes, MaxRouteLen)

PopupAttributes == {NoneStr, "name"}

Zooms == {1, 12}

KwargsSet ==
    { <<>>,
      << <<"dash_array", PyStr(<<"5">>)>> >>,
      << <<"color", PyStr(<<"#", "0", "f", "0">>)>> >>,
      << <<"popup_val", PyStr(<<"a">>)>> >>,
      << <<"locations", PyList(<<>>)>> >> }

\* the views a caller made earlier, when folium could be imported: a map
\* with an earlier polyline on it, and a feature group
CallerMaps ==
    << [cls |-> "Map", location |-> <<Frac(45, 1), Frac(9, 1)>>, zoom_start |-> 7,
        children |-> << [type |-> "TileLayer", tiles |-> "openstreetmap"],
                        FoliumPolyLine(<< <<10, 0>>, <<10, 1>> >>, None,
                                       "#cc0000", 5, 1, <<>>) >>],
       [cls |-> "FeatureGroup",
        children |-> << [type |-> "Marker", location |-> <<10, 0>>] >>] >>

NoCall == [fn |-> "none"]

Init ==
    /\ G \in Graphs
    /\ folium \in BOOLEAN
    /\ maps = IF folium THEN CallerMaps ELSE <<>>
    /\ last = NoCall

PlotGraph ==
    /\ last = NoCall
    /\ \E graph_map \in 0..Len(maps), popup_attribute \in PopupAttributes,
          zoom \in Zooms, fit_bounds \in BOOLEAN, kwargs \in KwargsSet :
         LET out == plot_graph_folium(G, graph_map, popup_attribute, "cartodbpositron",
                                    zoom, fit_bounds, "#333333", 5, 1, kwargs, maps)
         IN  /\ maps' = out.heap
             /\ last' = [fn |-> "plot_graph_folium", route |-> <<>>, m |-> graph_map,
                         popup_attribute |-> popup_attribute,
                         tiles |-> "cartodbpositron", zoom |-> zoom,
                         fit_bounds |-> fit_bounds, kwargs |-> kwargs,
                         before |-> maps, status |-> out.status,
                         ret |-> out.ret, log |-> out.log]
    /\ UNCHANGED <<G, folium>>

PlotRoute ==
    /\ last = NoCall
    /\ \E route \in Routes, route_map \in 0..Len(maps),
          popup_attribute \in PopupAttributes, zoom \in Zooms,
          fit_bounds \in BOOLEAN, kwargs \in KwargsSet :
         LET out == plot_route_folium(G, route, route_map, popup_attribute,
                                    "cartodbpositron", zoom, fit_bounds, "#cc0000",
                                    5, 1, kwargs, maps)
         IN  /\ maps' = out.heap
             /\ last' = [fn |-> "plot_route_folium", route |-> route, m |-> route_map,
                         popup_attribute |-> popup_attribute,
                         tiles |-> "cartodbpositron", zoom |-> zoom,
                         fit_bounds |-> fit_bounds, kwargs |-> kwargs,
                         before |-> maps, status |-> out.status,
                         ret |-> out.ret, log |-> out.log]
    /\ UNCHANGED <<G, folium>>

Next == PlotGraph \/ PlotRoute

Spec == Init /\ [][Next]_vars

(***************************************************************************)
(* _make_folium_polyline on its own: any short coordinate sequence, empty  *)
(* or of one point included, and any popup value.                          *)
(***************************************************************************)
MaxTextLen == 2

GridPoints == {0, 1} \X {10, 11}

Chars == {"a", "n", "DQ", "BS", "NL"}

PopupValues ==
    {None, NaN}
    \cup {PyInt(n) : n \in {-12, 0, 7, 40}}
    \cup {PyStr(txt) : txt \in SeqsUpTo(Chars, MaxTextLen)}
    \cup {PyList(xs) : xs \in SeqsUpTo({PyStr(<<"DQ">>), PyInt(3), None}, 2)}

InitPolyline ==
    /\ G = <<>>
    /\ folium = TRUE
    /\ maps = <<>>
    /\ last = NoCall

MakePolyline ==
    /\ last = NoCall
    /\ \E geom \in SeqsUpTo(GridPoints, MaxPoints), popup_val \in PopupValues,
          kwargs \in {<<>>, << <<"dash_array", PyStr(<<"5">>)>> >>} :
         LET out == _make_folium_polyline(geom, "#333333", 5, 1, popup_val, kwargs)
         IN  last' = [fn |-> "_make_folium_polyline", geom |-> geom,
                      popup_val |-> popup_val, kwargs |-> kwargs,
                      status |-> out.status, pl |-> out.pl]
    /\ UNCHANGED <<G, folium, maps>>

SpecPolyline == InitPolyline /\ [][MakePolyline]_vars

(***************************************************************************)
(* What the properties below speak of.                                     *)
(***************************************************************************)
IsPlot == last.fn \in {"plot_graph_folium", "plot_route_folium"}

IsRoute == last.fn = "plot_route_folium"

IsGraph == last.fn = "plot_graph_folium"

Returned == IsPlot /\ last.status = "ok"

\* the view the call returned
View == maps[last.ret]

\* how many children the view had before the call drew on it (a fresh
\* folium.Map holds its tile layer)
Base == IF last.m = 0 THEN 1 ELSE Len(last.before[last.m].children)

Added == SubSeq(View.children, Base + 1, Len(View.children))

Drawn == SelectSeq(Added, LAMBDA c : c.type = "PolyLine")

Fitted == SelectSeq(Added, LAMBDA c : c.type = "FitBounds")

Swapped(geom) == [i \in 1..Len(geom) |-> <<geom[i][2], geom[i][1]>>]

Parallel(u, v) == {e \in SeqToSet(G) : e.u = u /\ e.v = v}

HasLength(e) == "length" \in DOMAIN e.data

\* every consecutive pair of the route has an edge, and every parallel edge
\* of the pair carries a length
RouteLookupsFine ==
    \A i \in 1..(Len(last.route) - 1) :
        /\ Parallel(last.route[i], last.route[i + 1]) # {}
        /\ \A e \in Parallel(last.route[i], last.route[i + 1]) : HasLength(e)

\* every consecutive pair of the route has at least one edge carrying a length
RouteSomeLength ==
    \A i \in 1..(Len(last.route) - 1) :
        \E e \in Parallel(last.route[i], last.route[i + 1]) : HasLength(e)

\* the call names no popup attribute and passes no extra option
PlainCall == folium /\ last.kwargs = <<>> /\ last.popup_attribute = NoneStr

\* one polyline per consecutive pair, in route order, each of an edge of
\* minimal length among the pair's parallel edges
RouteDrawn ==
    /\ Len(Drawn) = Len(last.route) - 1
    /\ \A i \in 1..(Len(last.route) - 1) :
         \E e \in Parallel(last.route[i], last.route[i + 1]) :
            /\ HasLength(e)
            /\ \A e2 \in Parallel(last.route[i], last.route[i + 1]) :
                  HasLength(e2) => e.data["length"] <= e2.data["length"]
            /\ Drawn[i].locations = Swapped(e.data.geometry)

LogSet == SeqToSet(last.log)

\* the edge a polyline was drawn from (the geometries of the graph differ)
SourceEdge(pl) == CHOOSE e \in SeqToSet(G) : Swapped(e.data.geometry) = pl.locations

\* the value of the popup attribute in the row of a polyline
RowValue(pl) ==
    IF last.popup_attribute \in DOMAIN SourceEdge(pl).data
    THEN SourceEdge(pl).data[last.popup_attribute]
    ELSE NaN

\* the edges of the table the call plots from
TableEdges ==
    IF IsGraph THEN SeqToSet(G)
    ELSE {e \in SeqToSet(G) : e.u \in SeqToSet(last.route) /\ e.v \in SeqToSet(last.route)}

(***************************************************************************)
(* C1.                                                                     *)
(***************************************************************************)
\* C1, as claimed: a route of N >= 2 nodes whose consecutive pairs each have
\* at least one edge carrying `length` is drawn as N-1 polylines, one per
\* pair in route order, each of the pair's parallel edge of minimal length.
C1_Original ==
    (IsRoute /\ Len(last.route) >= 2 /\ PlainCall /\ RouteSomeLength)
        => (last.status = "ok" /\ RouteDrawn)

\* C1, amended: when EVERY parallel edge between each consecutive pair
\* carries `length`, the plain call returns, and every call that returns has
\* drawn exactly N-1 polylines, one per pair in route order, each of a
\* parallel edge of minimal length (also for a pair that occurs twice).
C1_RouteDrawsMinLengthEdges ==
    (IsRoute /\ Len(last.route) >= 2 /\ RouteLookupsFine)
        => /\ PlainCall => last.status = "ok"
           /\ last.status = "ok" => RouteDrawn

\* the pair (1, 2) occurs twice and has two parallel edges, the second the
\* shorter one
C1_Witness ==
    /\ IsRoute /\ last.status = "ok"
    /\ last.route = <<1, 2, 1, 2>>
    /\ Cardinality(Parallel(1, 2)) = 2
    /\ Len(Drawn) = 3
    /\ Drawn[1].locations = Swapped(EdgePool[2].data.geometry)
    /\ Drawn[3] = Drawn[1]

(***************************************************************************)
(* C2.                                                                     *)
(***************************************************************************)
\* C2, as claimed: with folium unavailable the unavailable error is raised
\* before any geometry processing, so it is the outcome of every call
\* (taken here without extra options), a route with a missing edge included.
C2_Original ==
    (IsPlot /\ ~folium /\ last.kwargs = <<>>) => last.status = "ImportError"

\* C2, amended: with folium unavailable no call returns or touches a view,
\* and a call that enters _plot_folium fails there at once with the
\* unavailable error, before the centroid, the map, any polyline and the
\* bounds; the edge table and the route's edge selection come before the
\* check, so a failing route lookup (KeyError) or a keyword that collides
\* with a parameter of _plot_folium (TypeError) is raised instead.
C2_UnavailableInPlotFolium ==
    (IsPlot /\ ~folium)
        => /\ last.status \in {"ImportError", "KeyError", "TypeError"}
           /\ maps = last.before /\ last.ret = 0
           /\ LogSet \cap {"centroid", "folium.Map", "PolyLine", "add_to", "fit_bounds"} = {}
           /\ "graph_to_gdfs" \in LogSet
           /\ last.status = "ImportError" <=> "_plot_folium" \in LogSet
           /\ last.status = "ImportError"
                => /\ last.log[Len(last.log)] = "folium is None"
                   /\ last.log[Len(last.log) - 1] = "_plot_folium"
           /\ last.status = "KeyError" <=> (IsRoute /\ ~RouteLookupsFine)
           /\ last.status = "TypeError" => KwNames(last.kwargs) \cap PlotFoliumParams # {}

C2_Witness ==
    /\ IsRoute /\ ~folium
    /\ Len(last.route) = 3
    /\ last.status = "ImportError"
    /\ last.log = <<"graph_to_gdfs", "uvk", "loc", "_plot_folium", "folium is None">>

(***************************************************************************)
(* C3.                                                                     *)
(***************************************************************************)
\* C3, as claimed: a route of 0 or 1 nodes is plotted without error, with
\* no polyline drawn (taken here where the route's node has a loop edge, so
\* that the subgraph's edge table is not empty).
C3_Original ==
    (IsRoute /\ Len(last.route) <= 1 /\ PlainCall /\ TableEdges # {})
        => (last.status = "ok" /\ Len(Drawn) = 0)

\* C3, amended: a route of 0 or 1 nodes draws no polyline and leaves every
\* view of the caller as it was, but the call does not return: the plain
\* call fails where the centroid of the empty edge table is taken.
C3_ShortRouteFails ==
    (IsRoute /\ Len(last.route) <= 1)
        => /\ last.status # "ok" /\ last.ret = 0
           /\ maps = last.before
           /\ LogSet \cap {"folium.Map", "PolyLine", "add_to", "fit_bounds"} = {}
           /\ PlainCall => /\ last.status = "IndexError"
                           /\ last.log[Len(last.log)] = "centroid"

C3_Witness ==
    /\ IsRoute /\ last.route = <<1>> /\ last.m = 1
    /\ Parallel(1, 1) # {}
    /\ last.status = "IndexError"

(***************************************************************************)
(* C4.                                                                     *)
(***************************************************************************)
\* the number of rows a returning call plotted
PlottedRows == IF IsGraph THEN Len(G) ELSE Len(last.route) - 1

\* C4: a call on an existing view returns that view; its earlier children
\* are kept in order with one polyline per plotted row after them, no view
\* is constructed, every other view is untouched, and a map's stored
\* location and zoom are as before, whatever fit_bounds is.
C4_ExistingViewKept ==
    (Returned /\ last.m # 0)
        => /\ last.ret = last.m
           /\ Len(maps) = Len(last.before)
           /\ "folium.Map" \notin LogSet
           /\ \A j \in 1..Len(maps) : j # last.m => maps[j] = last.before[j]
           /\ View.cls = last.before[last.m].cls
           /\ Len(View.children) >= Base + PlottedRows
           /\ SubSeq(View.children, 1, Base) = last.before[last.m].children
           /\ \A i \in 1..PlottedRows : View.children[Base + i].type = "PolyLine"
           /\ Len(Drawn) = PlottedRows
           /\ View.cls = "Map"
                => /\ View.location = last.before[last.m].location
                   /\ View.zoom_start = last.before[last.m].zoom_start

C4_Witness ==
    /\ Returned /\ IsGraph /\ last.m = 1 /\ last.fit_bounds
    /\ Len(G) >= 2
    /\ Len(View.children) > Len(last.before[1].children) + Len(G)

(***************************************************************************)
(* C5.                                                                     *)
(***************************************************************************)
\* C5, as claimed (for calls without extra options): without
\* popup_attribute no polyline has a popup; with it every polyline has one,
\* whose payload json-decodes to the row's value, a None value included.
C5_Original ==
    (Returned /\ last.kwargs = <<>>)
        => \A i \in 1..Len(Drawn) :
              IF last.popup_attribute = NoneStr THEN Drawn[i].popup = None
              ELSE /\ Drawn[i].popup # None
                   /\ JsonLoads(Drawn[i].popup.html) = RowValue(Drawn[i])

\* the value _make_folium_polyline gets as popup_val for a polyline
PopupValOf(pl) ==
    IF last.popup_attribute # NoneStr THEN RowValue(pl)
    ELSE IF "popup_val" \in KwNames(last.kwargs) THEN KwGet(last.kwargs, "popup_val")
    ELSE None

\* C5, amended: without popup_attribute (and without an extra option named
\* popup_val, which is taken as the popup value of every polyline) no
\* polyline has a popup; with it a polyline has a popup exactly when its
\* row's value is not None, and the payload json-decodes to that value.
C5_PopupDecodesUnlessNone ==
    Returned
        => \A i \in 1..Len(Drawn) :
              IF PopupValOf(Drawn[i]) = None THEN Drawn[i].popup = None
              ELSE /\ Drawn[i].popup # None
                   /\ JsonLoads(Drawn[i].popup.html) = PopupValOf(Drawn[i])

C5_Witness ==
    /\ Returned /\ IsGraph /\ last.popup_attribute = "name"
    /\ Len(G) = Len(EdgePool)
    /\ \E i, j \in 1..Len(Drawn) :
          /\ Drawn[i].popup = None
          /\ Drawn[j].popup # None
          /\ JsonLoads(Drawn[j].popup.html) = PyStr(<<"a", "DQ", "n">>)

(***************************************************************************)
(* C6.                                                                     *)
(***************************************************************************)
\* the points of the geometries the call plotted, as (x, y)
PlottedPoints ==
    UNION {SeqToSet(SourceEdge(Drawn[i]).data.geometry) : i \in 1..Len(Drawn)}

\* C6: a call with fit_bounds on a fresh map fits it once, after the
\* polylines, to [(min-y, min-x), (max-y, max-x)] over all plotted points,
\* which is (latitude, longitude) order; a call without fit_bounds, or on
\* a feature group, fits nothing.
C6_FitBoundsLatLon ==
    Returned
        => /\ (last.m = 0 /\ last.fit_bounds)
                => /\ Len(Fitted) = 1
                   /\ Added[Len(Added)] = Fitted[1]
                   /\ Fitted[1].bounds =
                        << <<SetMin({q[2] : q \in PlottedPoints}),
                             SetMin({q[1] : q \in PlottedPoints})>>,
                           <<SetMax({q[2] : q \in PlottedPoints}),
                             SetMax({q[1] : q \in PlottedPoints})>> >>
           /\ (~last.fit_bounds \/ View.cls = "FeatureGroup") => Len(Fitted) = 0

C6_Witness ==
    /\ Returned /\ last.m = 0 /\ last.fit_bounds
    /\ Len(Drawn) >= 2
    /\ Len(Fitted) = 1
    /\ Fitted[1].bounds = << <<10, 0>>, <<12, 2>> >>

(***************************************************************************)
(* C7.                                                                     *)
(***************************************************************************)
\* C7: the polyline's points are the geometry's points, each (lon, lat)
\* pair swapped to (lat, lon), in the same order, for a geometry of any
\* number of points.
C7_LocationsSwapPairs ==
    (last.fn = "_make_folium_polyline" /\ last.status = "ok")
        => /\ Len(last.pl.locations) = Len(last.geom)
           /\ \A i \in 1..Len(last.geom) :
                 /\ last.pl.locations[i][1] = last.geom[i][2]
                 /\ last.pl.locations[i][2] = last.geom[i][1]

C7_Witness ==
    /\ last.fn = "_make_folium_polyline" /\ last.status = "ok"
    /\ last.geom = << <<0, 10>>, <<1, 11>> >>
    /\ last.pl.locations = << <<10, 0>>, <<11, 1>> >>

(***************************************************************************)
(* C8.                                                                     *)
(***************************************************************************)
\* one polyline per edge, in row order, with as many points as its geometry
GraphDrawn ==
    /\ Len(Drawn) = Len(G)
    /\ \A i \in 1..Len(G) : Len(Drawn[i].locations) = Len(G[i].data.geometry)

\* the view is a map made by the call, centred at the centroid of the
\* union of the edges' geometries as (latitude, longitude)
FreshMapAtCentroid ==
    LET U == UNION {GeomUnits(G[i].data.geometry) : i \in 1..Len(G)}
        lat == View.location[1]
        lon == View.location[2]
    IN  /\ last.ret = Len(last.before) + 1
        /\ Len(maps) = Len(last.before) + 1
        /\ View.cls = "Map"
        /\ lat[1] * 2 * Cardinality(U) = lat[2] * SumOver(U, 2)
        /\ lon[1] * 2 * Cardinality(U) = lon[2] * SumOver(U, 1)
        /\ View.zoom_start = last.zoom
        /\ View.children[1] = [type |-> "TileLayer", tiles |-> last.tiles]

\* C8, as claimed: for any graph with E edges and no view supplied the
\* call returns a new map, centred at the centroid with the given zoom and
\* tiles, holding E polylines of the edges' point counts.
C8_Original ==
    (IsGraph /\ last.m = 0 /\ PlainCall)
        => (last.status = "ok" /\ FreshMapAtCentroid /\ GraphDrawn)

\* C8, amended: that holds for a graph with E >= 1 edges; a graph with no
\* edge has no centroid and the call fails instead of returning an empty map.
C8_GraphDrawsEveryEdge ==
    (IsGraph /\ last.m = 0)
        => /\ (PlainCall /\ Len(G) >= 1) => last.status = "ok"
           /\ last.status = "ok" => (Len(G) >= 1 /\ FreshMapAtCentroid /\ GraphDrawn)
           /\ Len(G) = 0 => (last.status # "ok" /\ maps = last.before)

C8_Witness ==
    /\ IsGraph /\ last.m = 0 /\ last.status = "ok"
    /\ Len(G) = 3 /\ last.zoom = 12
    /\ View.location[1] # View.location[2]
    /\ Len(Drawn) = 3

(***************************************************************************)
(* C9.                                                                     *)
(***************************************************************************)
\* the same call with no extra option
WithoutExtras ==
    IF IsGraph
    THEN plot_graph_folium(G, last.m, last.popup_attribute, last.tiles, last.zoom,
                         last.fit_bounds, "#333333", 5, 1, <<>>, last.before)
    ELSE plot_route_folium(G, last.route, last.m, last.popup_attribute, last.tiles,
                         last.zoom, last.fit_bounds, "#cc0000", 5, 1, <<>>,
                         last.before)

\* C9: an extra option with one of the names the docstrings give (color,
\* weight, opacity) does not make a call fail that succeeds without it,
\* and reaches every polyline the call draws, name and value unchanged.
C9_DocstringOptionsForwarded ==
    (IsPlot /\ KwNames(last.kwargs) \cap {"color", "weight", "opacity"} # {}
            /\ WithoutExtras.status = "ok")
        => /\ last.status = "ok"
           /\ \A i \in 1..Len(Drawn) : Drawn[i].kwargs = last.kwargs

(***************************************************************************)
(* C10.                                                                    *)
(***************************************************************************)
\* the popup attribute is no column of the table: no edge of it has it
PopupColumnMissing ==
    /\ last.popup_attribute # NoneStr
    /\ \A e \in TableEdges : last.popup_attribute \notin DOMAIN e.data

\* the call gets as far as the column lookup of _plot_folium
ReachesColumnLookup ==
    /\ folium
    /\ KwNames(last.kwargs) \cap PlotFoliumParams = {}
    /\ IF IsGraph THEN Len(G) >= 1 ELSE Len(last.route) >= 2 /\ RouteLookupsFine

\* C10: a route pair without an edge, a parallel edge of a route pair
\* without `length`, and a popup attribute that is no column are each
\* raised as a KeyError, and a call that raises KeyError has added no
\* polyline and fitted no bounds: every view of the caller is as before.
C10_LookupErrorBeforeDrawing ==
    IsPlot
        => /\ (IsRoute /\ ~RouteLookupsFine) => last.status = "KeyError"
           /\ (PopupColumnMissing /\ ReachesColumnLookup) => last.status = "KeyError"
           /\ last.status = "KeyError"
                => /\ maps = last.before /\ last.ret = 0
                   /\ LogSet \cap {"PolyLine", "add_to", "fit_bounds"} = {}

C10_Witness ==
    /\ IsRoute /\ last.m = 1 /\ last.status = "KeyError"
    /\ last.route = <<1, 2, 2>>
    /\ Parallel(1, 2) # {} /\ \A e \in Parallel(1, 2) : HasLength(e)
    /\ maps = last.before

=============================================================================
